---- MODULE Spec2Model ----
(***************************************************************************)
(* Starfield Storm (src/sfs.py): the frame loop of Game.run, the three     *)
(* state handlers menu_loop / game_loop / game_over_loop, the player's     *)
(* timed powerups and the collision resolver Game.handle_collisions.       *)
(*                                                                         *)
(* Units.  settings.json is not part of the sources, so every tuning value *)
(* read from `config` is a small number here.  Lengths are in units of the *)
(* player radius, times in clock ticks of pygame.time.get_ticks(), the     *)
(* score in hundredths of a point (game_loop adds 0.03 per frame and 10    *)
(* per kill).  The playfield is one column wide (WIN_WIDTH = 2 * radius),  *)
(* so that every position the code computes with hypot / atan2 / sin / cos *)
(* is an integer: all entities spawn at x = 1 and the clamp of             *)
(* Player.update keeps the player at x = 1.                                *)
(***************************************************************************)
EXTENDS Integers, Sequences, FiniteSets, TLC

VARIABLES
    state,            \* Game.state
    running,          \* Game.running
    ticks,            \* the value pygame.time.get_ticks() returns now
    queue,            \* pygame's event queue, read by pygame.event.get()
    pc,               \* position of Game.run inside the current frame
    player,           \* Game.player
    bullets,          \* Game.bullets
    enemies,          \* Game.enemies
    obstacles,        \* Game.obstacles
    pickups,          \* Game.pickups
    powerups,         \* Game.powerups
    score,            \* Game.score, in hundredths
    wave_interval,    \* Game.wave_interval
    last_wave_time,   \* Game.last_wave_time
    difficulty,       \* local `difficulty` of game_loop (last value computed)
    bi,               \* handle_collisions: index of the player-bullet loop
    session_start,    \* ghost: get_ticks() at the last reset_game
    frame_clock       \* ghost: get_ticks() at the first read of the frame

vars == <<state, running, ticks, queue, pc, player, bullets, enemies, obstacles,
          pickups, powerups, score, wave_interval, last_wave_time, difficulty,
          bi, session_start,
                   frame_clock>>

----------------------------------------------------------------------------
(* Bounds of the model.                                                    *)

\* the clock is followed up to this value
MaxTicks == 5

\* the longest the work of one frame takes, from its first clock read on
MaxFrameWork == 1

----------------------------------------------------------------------------
(* Tuning values (config[...]) and literals of the code.                   *)

WIN_WIDTH == 2
WIN_HEIGHT == 4

PlayerRadius == 1
InitialHealth == 3
PlayerFireDelay == 2
PlayerMaxSpeed == 1
CollisionWithEnemyDamage == 1

BulletRadius == 1
PlayerBulletSpeedY == -2
EnemyBulletBaseSpeed == 2
EnemyBulletDamage == 2
\* the 0.1 of `enemy_bullet_base_speed + difficulty * 0.1`
EnemyBulletSpeedStep == 1

EnemyRadius == 1
EnemyInitialHealth == 2
EnemyFireDelay == 2
EnemyBaseSpeed == 1
\* the 0.05 of `base_speed + difficulty * 0.05`
EnemySpeedStep == 1
\* the -30 of spawn_enemies
EnemySpawnY == -1
\* the 20 of random.randint(20, WIN_WIDTH - 20)
EnemySpawnMargin == 1

ObstacleRadiusMin == 1
ObstacleRadiusMax == 1
ObstacleInitialHealth == 1
ObstacleSpeedMin == 1
ObstacleSpeedMax == 1
ObstacleCollisionDamage == 2

PickupRadius == 1
PickupSpeedMin == 2
PickupSpeedMax == 2
RestoreAmount == 2

\* Powerup.radius = 16 and random.uniform(1.0, 2.0)
PowerupRadius == 1
PowerupSpeedMin == 2
PowerupSpeedMax == 2

TimeScale == 4
WaveIntervalStart == 3
WaveIntervalMin == 2
WaveIntervalDecrement == 2
\* enemy_spawn_factor = EnemySpawnFactorNum / EnemySpawnFactorDen
EnemySpawnFactorNum == 1
EnemySpawnFactorDen == 2
ObstacleSpawnFactor == 2

\* fire_delay_factor = 1/2, speed_multiplier = 2
FireDelayFactorNum == 1
FireDelayFactorDen == 2
SpeedMultiplier == 2

\* rarity weights and duration multipliers (in halves)
CommonWeight == 2
UncommonWeight == 1
RareWeight == 1
CommonMultiplierHalves == 2
UncommonMultiplierHalves == 3
RareMultiplierHalves == 4
\* config["powerups"][ptype]["duration"], the same for every kind
BaseDuration == 2

\* score += 0.03 and score += 10, in hundredths
FrameScore == 3
KillScore == 1000

PowerupKinds == {"rapid_fire", "speed_boost", "spread_shot", "shield", "nuke"}
Rarities == {"common", "uncommon", "rare"}
EventKinds == {"QUIT", "K_q", "K_SPACE", "K_r"}

\* what one call of pygame.event.get() may return besides nothing
Inputs == {<<e>> : e \in EventKinds} \cup {<<"K_SPACE", "QUIT">>}

\* the time one GAME frame (clock.tick(FPS) plus the frame's work) may take
FrameAdvances == {1, 2}

----------------------------------------------------------------------------
(* Helpers.                                                                *)

Max(a, b) == IF a >= b THEN a ELSE b
Min(a, b) == IF a <= b THEN a ELSE b
Abs(a) == IF a >= 0 THEN a ELSE -a
Sign(a) == IF a > 0 THEN 1 ELSE IF a < 0 THEN -1 ELSE 0

\* list.remove of the element at position i (objects compare by identity)
RemoveAt(s, i) == [j \in 1..(Len(s) - 1) |-> IF j < i THEN s[j] ELSE s[j + 1]]

\* Game.distance(...) < rsum: math.hypot(dx, dy) < rsum, on integers
Overlap(x1, y1, x2, y2, rsum) ==
    (x2 - x1) * (x2 - x1) + (y2 - y1) * (y2 - y1) < rsum * rsum

EmptyMap == [k \in {} |-> 0]

\* dict[k] = v
MapPut(m, k, v) == [j \in (DOMAIN m) \cup {k} |-> IF j = k THEN v ELSE m[j]]

\* Player(): the object Player.__init__ builds when get_ticks() returns now
NewPlayer(now) ==
    [x |-> WIN_WIDTH \div 2, y |-> WIN_HEIGHT \div 2,
     health |-> InitialHealth,
     fire_delay |-> PlayerFireDelay, max_speed |-> PlayerMaxSpeed,
     base_fire_delay |-> PlayerFireDelay, base_max_speed |-> PlayerMaxSpeed,
     last_shot_time |-> now,
     active_powerups |-> EmptyMap]

----------------------------------------------------------------------------
Init ==
    /\ state = "MENU"
    /\ running = TRUE
    /\ ticks = 0
    /\ queue = <<>>
    /\ pc = "run"
    /\ player = NewPlayer(0)
    /\ bullets = <<>>
    /\ enemies = <<>>
    /\ obstacles = <<>>
    /\ pickups = <<>>
    /\ powerups = <<>>
    /\ score = 0
    /\ wave_interval = WaveIntervalStart
    /\ last_wave_time = 0
    /\ difficulty = 0
    /\ bi = 1
    /\ session_start = 0
    /\ frame_clock = 0

----------------------------------------------------------------------------
(* The environment: time passes, input arrives.                            *)

\* menu_loop and game_over_loop never call clock.tick: while they spin, the
\* clock runs on
Tick ==
    /\ pc = "run" /\ running /\ state # "GAME"
    /\ ticks < MaxTicks
    /\ ticks' = ticks + 1
    /\ UNCHANGED <<state, running, queue, pc, player, bullets, enemies,
                   obstacles, pickups, powerups, score, wave_interval,
                   last_wave_time, difficulty, bi, session_start,
                   frame_clock>>

\* the window system posts events between two calls of pygame.event.get()
PostEvents ==
    /\ pc = "run" /\ running /\ queue = <<>>
    /\ \E es \in Inputs : queue' = es
    /\ UNCHANGED <<state, running, ticks, pc, player, bullets, enemies,
                   obstacles, pickups, powerups, score, wave_interval,
                   last_wave_time, difficulty, bi, session_start,
                   frame_clock>>

\* InQueue looking at the first event only
InQueue_First(e) == Len(queue) >= 1 /\ queue[1] = e

\* `for event in pygame.event.get()` meets an event e
InQueue(e) == \E i \in 1..Len(queue) : queue[i] = e

----------------------------------------------------------------------------
(* Game.reset_game, called by menu_loop and game_over_loop.                *)

\* reset_game refilling the health of the player in place of a new Player()
reset_game_SamePlayer ==
    /\ player' = [player EXCEPT !.health = InitialHealth,
                                !.x = WIN_WIDTH \div 2, !.y = WIN_HEIGHT \div 2,
                                !.last_shot_time = ticks]
    /\ bullets' = <<>>
    /\ enemies' = <<>>
    /\ obstacles' = <<>>
    /\ pickups' = <<>>
    /\ powerups' = <<>>
    /\ score' = 0
    /\ wave_interval' = WaveIntervalStart
    /\ last_wave_time' = ticks
    /\ session_start' = ticks
    /\ frame_clock' = frame_clock

reset_game ==
    /\ player' = NewPlayer(ticks)
    /\ bullets' = <<>>
    /\ enemies' = <<>>
    /\ obstacles' = <<>>
    /\ pickups' = <<>>
    /\ powerups' = <<>>
    /\ score' = 0
    /\ wave_interval' = WaveIntervalStart
    /\ last_wave_time' = ticks
    /\ session_start' = ticks
    /\ frame_clock' = frame_clock

\* what a handler leaves alone when it does not reset
NoReset ==
    UNCHANGED <<player, bullets, enemies, obstacles, pickups, powerups, score,
                wave_interval, last_wave_time, session_start,
                frame_clock>>

\* Game.menu_loop: the events are handled in order; QUIT and K_q clear
\* `running`, K_SPACE resets and enters GAME (the effects do not depend on
\* the order of the events)
menu_loop ==
    /\ pc = "run" /\ running /\ state = "MENU"
    /\ running' = ~(InQueue("QUIT") \/ InQueue("K_q"))
    /\ IF InQueue("K_SPACE")
         THEN reset_game /\ state' = "GAME"
         ELSE NoReset /\ state' = state
    /\ queue' = <<>>
    /\ UNCHANGED <<ticks, pc, difficulty, bi>>

\* game_over_loop restarting on the start key as well
game_over_loop_AnyKey ==
    /\ pc = "run" /\ running /\ state = "GAME_OVER"
    /\ running' = ~(InQueue("QUIT") \/ InQueue("K_q"))
    /\ IF InQueue("K_r") \/ InQueue("K_SPACE")
         THEN reset_game /\ state' = "GAME"
         ELSE NoReset /\ state' = state
    /\ queue' = <<>>
    /\ UNCHANGED <<ticks, pc, difficulty, bi>>

\* Game.game_over_loop: as menu_loop, with K_r for K_SPACE
game_over_loop ==
    /\ pc = "run" /\ running /\ state = "GAME_OVER"
    /\ running' = ~(InQueue("QUIT") \/ InQueue("K_q"))
    /\ IF InQueue("K_r")
         THEN reset_game /\ state' = "GAME"
         ELSE NoReset /\ state' = state
    /\ queue' = <<>>
    /\ UNCHANGED <<ticks, pc, difficulty, bi>>

----------------------------------------------------------------------------
(* Game.game_loop, one action per phase of the frame; pc orders them.      *)

\* dt = self.clock.tick(FPS); the event loop: only QUIT clears `running`
GameTick ==
    /\ pc = "run" /\ running /\ state = "GAME"
    /\ \E d \in FrameAdvances :
         /\ ticks + d <= MaxTicks
         /\ ticks' = ticks + d
    /\ running' = ~InQueue("QUIT")
    /\ queue' = <<>>
    /\ pc' = "player_update"
    /\ UNCHANGED <<state, player, bullets, enemies, obstacles, pickups,
                   powerups, score, wave_interval, last_wave_time, difficulty,
                   bi, session_start,
                   frame_clock>>

\* handle_powerup_expiration without the reset of the stats to their base
handle_powerup_expiration_Compounding(p, now) ==
    LET kept == {k \in DOMAIN p.active_powerups : ~(now >= p.active_powerups[k])}
        ap == [k \in kept |-> p.active_powerups[k]]
    IN [p EXCEPT
          !.active_powerups = ap,
          !.fire_delay =
              IF "rapid_fire" \in kept
                THEN (p.fire_delay * FireDelayFactorNum) \div FireDelayFactorDen
                ELSE p.fire_delay,
          !.max_speed =
              IF "speed_boost" \in kept
                THEN p.max_speed * SpeedMultiplier
                ELSE p.max_speed]

\* handle_powerup_expiration purging with `now > end_time`
handle_powerup_expiration_Late(p, now) ==
    LET kept == {k \in DOMAIN p.active_powerups : ~(now > p.active_powerups[k])}
        ap == [k \in kept |-> p.active_powerups[k]]
    IN [p EXCEPT
          !.active_powerups = ap,
          !.fire_delay =
              IF "rapid_fire" \in kept
                THEN (p.base_fire_delay * FireDelayFactorNum) \div FireDelayFactorDen
                ELSE p.base_fire_delay,
          !.max_speed =
              IF "speed_boost" \in kept
                THEN p.base_max_speed * SpeedMultiplier
                ELSE p.base_max_speed]

\* Player.handle_powerup_expiration with get_ticks() = now
handle_powerup_expiration(p, now) ==
    LET kept == {k \in DOMAIN p.active_powerups : ~(now >= p.active_powerups[k])}
        ap == [k \in kept |-> p.active_powerups[k]]
    IN [p EXCEPT
          !.active_powerups = ap,
          !.fire_delay =
              IF "rapid_fire" \in kept
                THEN (p.base_fire_delay * FireDelayFactorNum) \div FireDelayFactorDen
                ELSE p.base_fire_delay,
          !.max_speed =
              IF "speed_boost" \in kept
                THEN p.base_max_speed * SpeedMultiplier
                ELSE p.base_max_speed]

\* the pointer stays in the player's column, so hypot(dx, dy) = |dy|
MousePositions == {<<WIN_WIDTH \div 2, y>> : y \in {PlayerRadius, WIN_HEIGHT - PlayerRadius}}

Hypot(dx, dy) == IF dx = 0 THEN Abs(dy) ELSE Abs(dx)

\* the movement and the clamp of Player.update, the pointer at (mx, my)
MoveToward(p, mx, my) ==
    LET dx == mx - p.x
        dy == my - p.y
        dist == Hypot(dx, dy)
        sx == IF dist > p.max_speed THEN (dx * p.max_speed) \div dist ELSE dx
        sy == IF dist > p.max_speed THEN (dy * p.max_speed) \div dist ELSE dy
        nx == IF dist > 0 THEN p.x + sx ELSE p.x
        ny == IF dist > 0 THEN p.y + sy ELSE p.y
    IN [p EXCEPT
          !.x = Max(PlayerRadius, Min(WIN_WIDTH - PlayerRadius, nx)),
          !.y = Max(PlayerRadius, Min(WIN_HEIGHT - PlayerRadius, ny))]

\* self.player.update(); handle_powerup_expiration makes the first clock read
\* of the frame
PlayerUpdate ==
    /\ pc = "player_update"
    /\ \E m \in MousePositions :
         player' = MoveToward(handle_powerup_expiration(player, ticks), m[1], m[2])
    /\ frame_clock' = ticks
    /\ pc' = "shoot"
    /\ UNCHANGED <<state, running, ticks, queue, bullets, enemies, obstacles,
                   pickups, powerups, score, wave_interval, last_wave_time,
                   difficulty, bi, session_start>>

\* spread_shot: bullet_count and angle_degrees
SpreadBulletCount == 3
SpreadAngleDegrees == 90

\* math.sin / math.cos of math.radians(a), a a multiple of 90
SinDeg(a) == CASE a % 360 = 0 -> 0 [] a % 360 = 90 -> 1
               [] a % 360 = 180 -> 0 [] a % 360 = 270 -> -1
CosDeg(a) == CASE a % 360 = 0 -> 1 [] a % 360 = 90 -> 0
               [] a % 360 = 180 -> -1 [] a % 360 = 270 -> 0

\* Bullet(x, y, dx, dy, color, from_player)
Bullet(x, y, dx, dy, from_player) ==
    [x |-> x, y |-> y, dx |-> dx, dy |-> dy, from_player |-> from_player]

\* SpreadAngle without start_angle: the fan begins straight forward
SpreadAngle_NoCenter(i) == i * SpreadAngleDegrees

\* start_angle + i * angle_deg of Player.shoot, i = 0 .. count - 1
SpreadAngle(i) ==
    LET total_spread == (SpreadBulletCount - 1) * SpreadAngleDegrees
        start_angle == -(total_spread \div 2)
    IN start_angle + i * SpreadAngleDegrees

\* the bullets one firing of Player.shoot appends
ShotBullets(p) ==
    IF "spread_shot" \in DOMAIN p.active_powerups
      THEN [i \in 1..SpreadBulletCount |->
              LET base_speed == -PlayerBulletSpeedY
                  angle == SpreadAngle(i - 1)
              IN Bullet(p.x, p.y, base_speed * SinDeg(angle),
                        base_speed * (-CosDeg(angle)), TRUE)]
      ELSE <<Bullet(p.x, p.y, 0, PlayerBulletSpeedY, TRUE)>>

\* CanShoot with `>` for `>=`
CanShoot_Strict(p, now) == now - p.last_shot_time > p.fire_delay

\* the cooldown gate of Player.shoot
CanShoot(p, now) == now - p.last_shot_time >= p.fire_delay

\* self.player.shoot(self.bullets)
PlayerShoot ==
    /\ pc = "shoot"
    /\ IF CanShoot(player, ticks)
         THEN /\ bullets' = bullets \o ShotBullets(player)
              /\ player' = [player EXCEPT !.last_shot_time = ticks]
         ELSE UNCHANGED <<bullets, player>>
    /\ pc' = "wave"
    /\ UNCHANGED <<state, running, ticks, queue, enemies, obstacles, pickups,
                   powerups, score, wave_interval, last_wave_time, difficulty,
                   bi, session_start,
                   frame_clock>>

----------------------------------------------------------------------------
(* The difficulty scheduler and the spawner.                               *)

\* difficulty = elapsed_time // diff_conf["time_scale_ms"]
Difficulty(elapsed_time) == elapsed_time \div TimeScale

\* WaveDue with `>` for `>=`
WaveDue_Strict(elapsed_time) == elapsed_time - last_wave_time > wave_interval

\* the wave trigger of game_loop
WaveDue(elapsed_time) == elapsed_time - last_wave_time >= wave_interval

\* NextWaveInterval without the floor
NextWaveInterval_NoFloor(w) == w - WaveIntervalDecrement

\* max(self.wave_interval_min, self.wave_interval - self.wave_interval_decrement)
NextWaveInterval(w) == Max(WaveIntervalMin, w - WaveIntervalDecrement)

\* Enemy(x, y, speed, difficulty), built when get_ticks() returns now
Enemy(x, y, speed, d, now) ==
    [x |-> x, y |-> y, speed |-> speed, difficulty |-> d,
     health |-> EnemyInitialHealth, last_shot_time |-> now]

\* enemy_count of spawn_enemies
EnemyCount(d) == 1 + (d * EnemySpawnFactorNum) \div EnemySpawnFactorDen

\* obstacle_count of spawn_obstacles
ObstacleCount(d) == Max(1, d \div ObstacleSpawnFactor)

\* Obstacle() with the three random draws radius, x, speed
Obstacle(radius, x, speed) ==
    [x |-> x, y |-> -radius, radius |-> radius, speed |-> speed,
     health |-> ObstacleInitialHealth]

\* HealthPickup() with the random draws x, speed
HealthPickup(x, speed) == [x |-> x, y |-> -PickupRadius, speed |-> speed]

\* pick_rarity with `<=` for `<`
pick_rarity_Inclusive(roll) ==
    IF roll <= CommonWeight THEN "common"
    ELSE IF roll - CommonWeight <= UncommonWeight THEN "uncommon"
    ELSE "rare"

\* Powerup.pick_rarity, roll = random.random() * total
pick_rarity(roll) ==
    IF roll < CommonWeight THEN "common"
    ELSE IF roll - CommonWeight < UncommonWeight THEN "uncommon"
    ELSE "rare"

\* the rolls random.random() * total can give, to the integer
Rolls == 0..(CommonWeight + UncommonWeight + RareWeight - 1)

\* int(self.base_duration * rar_conf["duration_multiplier"])
PowerupDuration(rarity) ==
    LET halves == CASE rarity = "common" -> CommonMultiplierHalves
                    [] rarity = "uncommon" -> UncommonMultiplierHalves
                    [] rarity = "rare" -> RareMultiplierHalves
    IN (BaseDuration * halves) \div 2

\* Powerup(ptype) with the random draws roll, x, speed; the field roll is a
\* ghost, the value pick_rarity drew for this powerup
Powerup(ptype, roll, x, speed) ==
    [x |-> x, y |-> -PowerupRadius, speed |-> speed, ptype |-> ptype,
     roll |-> roll, rarity |-> pick_rarity(roll),
     duration |-> PowerupDuration(pick_rarity(roll))]

\* the order in which spawn_powerups walks config["powerups"]
KindOrder == <<"rapid_fire", "speed_boost", "spread_shot", "shield", "nuke">>

\* the outcomes of one wave's Bernoulli trials random.random() < chance: the
\* kinds that spawn (no kind, or one)
PowerupDraws == {{}} \cup {{k} : k \in PowerupKinds}

\* the enemies spawn_enemies appends, xs the x drawn for each
SpawnedEnemies(d, xs, now) ==
    [i \in 1..EnemyCount(d) |->
       Enemy(xs[i], EnemySpawnY, EnemyBaseSpeed + d * EnemySpeedStep, d, now)]

\* the powerups spawn_powerups appends: the kinds of S in config order
SpawnedPowerups(S, roll, speed) ==
    LET ks == SelectSeq(KindOrder, LAMBDA k : k \in S)
    IN [i \in 1..Len(ks) |->
          Powerup(ks[i], roll[ks[i]], WIN_WIDTH \div 2, speed[ks[i]])]

\* elapsed_time, difficulty, the passive score and the wave spawn of game_loop
WaveStep ==
    /\ pc = "wave"
    /\ LET elapsed_time == ticks
           d == Difficulty(elapsed_time)
       IN /\ difficulty' = d
          /\ IF WaveDue(elapsed_time)
               THEN /\ \E xs \in [1..EnemyCount(d) ->
                                    EnemySpawnMargin..(WIN_WIDTH - EnemySpawnMargin)] :
                         enemies' = enemies \o SpawnedEnemies(d, xs, ticks)
                    /\ \E os \in [1..ObstacleCount(d) ->
                                    {Obstacle(r, x, sp) :
                                       r \in ObstacleRadiusMin..ObstacleRadiusMax,
                                       x \in {WIN_WIDTH \div 2},
                                       sp \in ObstacleSpeedMin..ObstacleSpeedMax}] :
                         obstacles' = obstacles \o os
                    /\ \E hit \in BOOLEAN, sp \in PickupSpeedMin..PickupSpeedMax :
                         pickups' = IF hit
                                      THEN Append(pickups, HealthPickup(WIN_WIDTH \div 2, sp))
                                      ELSE pickups
                    /\ \E S \in PowerupDraws :
                         \E roll \in [S -> Rolls],
                            speed \in [S -> PowerupSpeedMin..PowerupSpeedMax] :
                           powerups' = powerups \o SpawnedPowerups(S, roll, speed)
                    /\ last_wave_time' = elapsed_time
                    /\ wave_interval' = NextWaveInterval(wave_interval)
                    /\ score' = score + FrameScore
               ELSE /\ score' = score + FrameScore
                    /\ UNCHANGED <<enemies, obstacles, pickups, powerups,
                                   last_wave_time, wave_interval>>
    /\ pc' = "update_bullets"
    /\ UNCHANGED <<state, running, ticks, queue, player, bullets, bi,
                   session_start, frame_clock>>

----------------------------------------------------------------------------
(* The entity updates of game_loop.  Each loop walks a copy of its list    *)
(* and removes only the element it is at, so it maps and then filters.     *)

\* Bullet.update
BulletUpdate(b) == [b EXCEPT !.x = b.x + b.dx, !.y = b.y + b.dy]

\* Bullet.off_screen
BulletOffScreen(b) == b.x < 0 \/ b.x > WIN_WIDTH \/ b.y < 0 \/ b.y > WIN_HEIGHT

\* OffScreen removing an element that is still touching the bottom edge
OffScreen_Inclusive(e, radius) == e.y >= WIN_HEIGHT + radius

\* off_screen of Enemy, Obstacle, HealthPickup and Powerup
OffScreen(e, radius) == e.y > WIN_HEIGHT + radius

\* for b in self.bullets[:]: b.update(); remove when off screen
UpdateBullets ==
    /\ pc = "update_bullets"
    /\ bullets' = SelectSeq([i \in 1..Len(bullets) |-> BulletUpdate(bullets[i])],
                            LAMBDA b : ~BulletOffScreen(b))
    /\ pc' = "update_enemies"
    /\ UNCHANGED <<state, running, ticks, queue, player, enemies, obstacles,
                   pickups, powerups, score, wave_interval, last_wave_time,
                   difficulty, bi, session_start,
                   frame_clock>>

\* (cos, sin) of math.atan2(ddy, ddx) for a target on the same row or column;
\* atan2(0, 0) is 0
AimDir(ddx, ddy) == IF ddx = 0 /\ ddy = 0 THEN <<1, 0>> ELSE <<Sign(ddx), Sign(ddy)>>

\* the cooldown gate of Enemy.update, e already moved
EnemyFires(e, now) == now - e.last_shot_time >= EnemyFireDelay

\* the bullet Enemy.update appends, e already moved
EnemyBullet(e, p) ==
    LET dir == AimDir(p.x - e.x, p.y - e.y)
        bullet_speed == EnemyBulletBaseSpeed + e.difficulty * EnemyBulletSpeedStep
    IN Bullet(e.x, e.y, bullet_speed * dir[1], bullet_speed * dir[2], FALSE)

\* Enemy.update: the enemy after its move and, when it fired, its new stamp
EnemyUpdate(e, now) ==
    LET m == [e EXCEPT !.y = e.y + e.speed]
    IN IF EnemyFires(m, now) THEN [m EXCEPT !.last_shot_time = now] ELSE m

\* for e in self.enemies[:]: e.update(self.bullets, self.player); remove when
\* off screen (an enemy fires before it is removed)
UpdateEnemies ==
    /\ pc = "update_enemies"
    /\ LET moved == [i \in 1..Len(enemies) |-> [enemies[i] EXCEPT !.y = @ + enemies[i].speed]]
           firing == SelectSeq(moved, LAMBDA e : EnemyFires(e, ticks))
       IN /\ bullets' = bullets \o [i \in 1..Len(firing) |-> EnemyBullet(firing[i], player)]
          /\ enemies' = SelectSeq([i \in 1..Len(enemies) |-> EnemyUpdate(enemies[i], ticks)],
                                  LAMBDA e : ~OffScreen(e, EnemyRadius))
    /\ pc' = "update_falling"
    /\ UNCHANGED <<state, running, ticks, queue, player, obstacles, pickups,
                   powerups, score, wave_interval, last_wave_time, difficulty,
                   bi, session_start,
                   frame_clock>>

\* y += speed for every element
MoveDown(s) == [i \in 1..Len(s) |-> [s[i] EXCEPT !.y = @ + s[i].speed]]

\* the update loops of the obstacles, the pickups and the powerups: y += speed,
\* removed when off screen; handle_collisions follows
UpdateFalling ==
    /\ pc = "update_falling"
    /\ obstacles' = SelectSeq(MoveDown(obstacles), LAMBDA o : ~OffScreen(o, o.radius))
    /\ pickups' = SelectSeq(MoveDown(pickups), LAMBDA p : ~OffScreen(p, PickupRadius))
    /\ powerups' = SelectSeq(MoveDown(powerups), LAMBDA pw : ~OffScreen(pw, PowerupRadius))
    /\ pc' = "player_bullets"
    /\ UNCHANGED <<state, running, ticks, queue, player, bullets, enemies,
                   score, wave_interval, last_wave_time, difficulty, bi,
                   session_start, frame_clock>>

----------------------------------------------------------------------------
(* Game.handle_collisions.                                                 *)

\* the smallest index of I, 0 when I is empty
FirstOf(I) == IF I = {} THEN 0 ELSE CHOOSE i \in I : \A j \in I : i <= j

\* FirstEnemyHit taking the last overlapping enemy
FirstEnemyHit_Last(b, es) ==
    LET I == {i \in 1..Len(es) :
                Overlap(b.x, b.y, es[i].x, es[i].y, BulletRadius + EnemyRadius)}
    IN IF I = {} THEN 0 ELSE CHOOSE i \in I : \A j \in I : i >= j

\* `for e in self.enemies[:]: if distance(b, e) < b.radius + e.radius`: the
\* first enemy bullet b overlaps, 0 when there is none
FirstEnemyHit(b, es) ==
    FirstOf({i \in 1..Len(es) :
               Overlap(b.x, b.y, es[i].x, es[i].y, BulletRadius + EnemyRadius)})

\* FirstObstacleHit taking the last overlapping obstacle
FirstObstacleHit_Last(b, os) ==
    LET I == {i \in 1..Len(os) :
                Overlap(b.x, b.y, os[i].x, os[i].y, BulletRadius + os[i].radius)}
    IN IF I = {} THEN 0 ELSE CHOOSE i \in I : \A j \in I : i >= j

\* the same for the obstacles
FirstObstacleHit(b, os) ==
    FirstOf({i \in 1..Len(os) :
               Overlap(b.x, b.y, os[i].x, os[i].y, BulletRadius + os[i].radius)})

\* Destroyed with `< 0` for `<= 0`
Destroyed_Strict(s, i) == s[i].health - 1 < 0

\* `health -= 1` left the target at health <= 0
Destroyed(s, i) == s[i].health - 1 <= 0

\* the list after s[i] was struck: health -= 1, removed at health <= 0
Strike(s, i) ==
    IF Destroyed(s, i) THEN RemoveAt(s, i) ELSE [s EXCEPT ![i].health = @ - 1]

\* the score a strike of s[i] awards
StrikeScore(s, i) == IF Destroyed(s, i) THEN KillScore ELSE 0

\* NextIndex for a loop over the list itself: the index moves on regardless
NextIndex_Live(i, removed) == i + 1

\* `for b in self.bullets[:]` walks a copy: the next element of the copy is at
\* i + 1 in self.bullets, or at i when the element at i was just removed
NextIndex(i, removed) == IF removed THEN i ELSE i + 1

\* one turn of `for b in self.bullets[:]` of the first loop: bullets[bi] is
\* the bullet the loop is at
PlayerBulletStep ==
    /\ pc = "player_bullets"
    /\ bi <= Len(bullets)
    /\ LET b == bullets[bi]
           ei == IF b.from_player THEN FirstEnemyHit(b, enemies) ELSE 0
           oi == IF b.from_player /\ ei = 0 THEN FirstObstacleHit(b, obstacles) ELSE 0
       IN IF ei > 0
            THEN /\ enemies' = Strike(enemies, ei)
                 /\ score' = score + StrikeScore(enemies, ei)
                 /\ bullets' = RemoveAt(bullets, bi)
                 /\ bi' = NextIndex(bi, TRUE)
                 /\ UNCHANGED obstacles
            ELSE IF oi > 0
            THEN /\ obstacles' = Strike(obstacles, oi)
                 /\ score' = score + StrikeScore(obstacles, oi)
                 /\ bullets' = RemoveAt(bullets, bi)
                 /\ bi' = NextIndex(bi, TRUE)
                 /\ UNCHANGED enemies
            ELSE /\ bi' = NextIndex(bi, FALSE)
                 /\ UNCHANGED <<enemies, obstacles, score, bullets>>
    /\ UNCHANGED <<state, running, ticks, queue, pc, player, pickups, powerups,
                   wave_interval, last_wave_time, difficulty, session_start,
                   frame_clock>>

\* the first loop has walked its whole copy (its index goes out of scope)
PlayerBulletsDone ==
    /\ pc = "player_bullets"
    /\ bi > Len(bullets)
    /\ pc' = "enemy_bullets"
    /\ bi' = 1
    /\ UNCHANGED <<state, running, ticks, queue, player, bullets, enemies,
                   obstacles, pickups, powerups, score, wave_interval,
                   last_wave_time, difficulty, session_start,
                   frame_clock>>

\* Player.is_shielded
is_shielded(p) == "shield" \in DOMAIN p.active_powerups

\* TakeHits without the shield test
TakeHits_Unshielded(p, n, amount) == [p EXCEPT !.health = @ - n * amount]

\* n hits of `amount` each: `if not is_shielded(): health -= amount`
TakeHits(p, n, amount) ==
    IF is_shielded(p) THEN p ELSE [p EXCEPT !.health = @ - n * amount]

\* the test of each player-contact loop
Touches(e, radius, p) == Overlap(e.x, e.y, p.x, p.y, radius + PlayerRadius)

EnemyBulletHits(b, p) == ~b.from_player /\ Touches(b, BulletRadius, p)

\* Enemy bullets vs. Player
EnemyBulletsVsPlayer ==
    /\ pc = "enemy_bullets"
    /\ player' = TakeHits(player,
                          Len(SelectSeq(bullets, LAMBDA b : EnemyBulletHits(b, player))),
                          EnemyBulletDamage)
    /\ bullets' = SelectSeq(bullets, LAMBDA b : ~EnemyBulletHits(b, player))
    /\ pc' = "obstacles_player"
    /\ UNCHANGED <<state, running, ticks, queue, enemies, obstacles, pickups,
                   powerups, score, wave_interval, last_wave_time, difficulty,
                   bi, session_start,
                   frame_clock>>

\* Obstacles vs. Player
ObstaclesVsPlayer ==
    /\ pc = "obstacles_player"
    /\ player' = TakeHits(player,
                          Len(SelectSeq(obstacles, LAMBDA o : Touches(o, o.radius, player))),
                          ObstacleCollisionDamage)
    /\ obstacles' = SelectSeq(obstacles, LAMBDA o : ~Touches(o, o.radius, player))
    /\ pc' = "enemies_player"
    /\ UNCHANGED <<state, running, ticks, queue, bullets, enemies, pickups,
                   powerups, score, wave_interval, last_wave_time, difficulty,
                   bi, session_start,
                   frame_clock>>

\* Enemies vs Player (ramming)
EnemiesVsPlayer ==
    /\ pc = "enemies_player"
    /\ player' = TakeHits(player,
                          Len(SelectSeq(enemies, LAMBDA e : Touches(e, EnemyRadius, player))),
                          CollisionWithEnemyDamage)
    /\ enemies' = SelectSeq(enemies, LAMBDA e : ~Touches(e, EnemyRadius, player))
    /\ pc' = "pickups_player"
    /\ UNCHANGED <<state, running, ticks, queue, bullets, obstacles, pickups,
                   powerups, score, wave_interval, last_wave_time, difficulty,
                   bi, session_start,
                   frame_clock>>

\* one pickup: health += restore_amount; health = min(health, max_hp)
Restore(h) == Min(h + RestoreAmount, InitialHealth)

RECURSIVE RestoreTimes(_, _)
RestoreTimes(h, n) == IF n = 0 THEN h ELSE RestoreTimes(Restore(h), n - 1)

\* Health pickups vs Player
PickupsVsPlayer ==
    /\ pc = "pickups_player"
    /\ player' = [player EXCEPT !.health =
                    RestoreTimes(@, Len(SelectSeq(pickups,
                                        LAMBDA p : Touches(p, PickupRadius, player))))]
    /\ pickups' = SelectSeq(pickups, LAMBDA p : ~Touches(p, PickupRadius, player))
    /\ pc' = "powerups_player"
    /\ UNCHANGED <<state, running, ticks, queue, bullets, enemies, obstacles,
                   powerups, score, wave_interval, last_wave_time, difficulty,
                   bi, session_start,
                   frame_clock>>

\* apply_powerup adding the duration to the expiry of a kind already active
apply_powerup_Stacking(p, ptype, custom_duration, now) ==
    [p EXCEPT !.active_powerups =
       MapPut(@, ptype, IF ptype \in DOMAIN @ THEN @[ptype] + custom_duration
                                              ELSE now + custom_duration)]

\* Player.apply_powerup with get_ticks() = now
apply_powerup(p, ptype, custom_duration, now) ==
    [p EXCEPT !.active_powerups = MapPut(@, ptype, now + custom_duration)]

\* apply_powerup for every powerup of pws, in order
RECURSIVE ApplyAll(_, _, _)
ApplyAll(p, pws, now) ==
    IF pws = <<>> THEN p
    ELSE ApplyAll(apply_powerup(p, Head(pws).ptype, Head(pws).duration, now),
                  Tail(pws), now)

\* the powerups the player overlaps, in list order
PickedPowerups == SelectSeq(powerups, LAMBDA pw : Touches(pw, PowerupRadius, player))

NukePicked == \E i \in 1..Len(PickedPowerups) : PickedPowerups[i].ptype = "nuke"

\* NukeScore counting the enemies only
NukeScore_EnemiesOnly(es, os) == KillScore * Len(es)

\* the score of one nuke: 10 for every enemy and every obstacle
NukeScore(es, os) == KillScore * (Len(es) + Len(os))

\* Powerups vs Player
PowerupsVsPlayer ==
    /\ pc = "powerups_player"
    /\ player' = ApplyAll(player, PickedPowerups, ticks)
    /\ IF NukePicked
         THEN /\ score' = score + NukeScore(enemies, obstacles)
              /\ enemies' = <<>>
              /\ obstacles' = <<>>
         ELSE UNCHANGED <<score, enemies, obstacles>>
    /\ powerups' = SelectSeq(powerups, LAMBDA pw : ~Touches(pw, PowerupRadius, player))
    /\ pc' = "terminal"
    /\ UNCHANGED <<state, running, ticks, queue, bullets, pickups,
                   wave_interval, last_wave_time, difficulty, bi, session_start,
                   frame_clock>>

\* TerminalState with `< 0` for `<= 0`
TerminalState_Strict(p, st) == IF p.health < 0 THEN "GAME_OVER" ELSE st

\* TerminalState falling back to the menu
TerminalState_ToMenu(p, st) == IF p.health <= 0 THEN "MENU" ELSE st

\* the state the terminal check of game_loop leaves
TerminalState(p, st) == IF p.health <= 0 THEN "GAME_OVER" ELSE st

\* if self.player.health <= 0: self.state = "GAME_OVER"; the frame ends
TerminalCheck ==
    /\ pc = "terminal"
    /\ state' = TerminalState(player, state)
    /\ pc' = "run"
    /\ UNCHANGED <<running, ticks, queue, player, bullets, enemies, obstacles,
                   pickups, powerups, score, wave_interval, last_wave_time,
                   difficulty, bi, session_start,
                   frame_clock>>

----------------------------------------------------------------------------
Next ==
    \/ Tick
    \/ PostEvents
    \/ menu_loop
    \/ game_over_loop
    \/ GameTick
    \/ PlayerUpdate
    \/ PlayerShoot
    \/ WaveStep
    \/ UpdateBullets
    \/ UpdateEnemies
    \/ UpdateFalling
    \/ PlayerBulletStep
    \/ PlayerBulletsDone
    \/ EnemyBulletsVsPlayer
    \/ ObstaclesVsPlayer
    \/ EnemiesVsPlayer
    \/ PickupsVsPlayer
    \/ PowerupsVsPlayer
    \/ TerminalCheck

Spec == Init /\ [][Next]_vars

----------------------------------------------------------------------------
(* The clock during a frame.  Under Spec the work of a frame takes no time. *)
(* pygame.time.get_ticks() is read again by Player.shoot, by game_loop     *)
(* (elapsed_time), by Enemy.__init__ and Enemy.update and by               *)
(* Player.apply_powerup; under SpecSkew the clock may move on before each  *)
(* of these reads (before another phase it would not be observed).         *)

ClockReads == {"shoot", "wave", "update_enemies", "powerups_player"}

ClockSkew ==
    /\ pc \in ClockReads
    /\ ticks < MaxTicks
    /\ ticks - frame_clock < MaxFrameWork
    /\ ticks' = ticks + 1
    /\ UNCHANGED <<state, running, queue, pc, player, bullets, enemies,
                   obstacles, pickups, powerups, score, wave_interval,
                   last_wave_time, difficulty, bi, session_start, frame_clock>>

NextSkew == Next \/ ClockSkew

SpecSkew == Init /\ [][NextSkew]_vars

\* `while self.running` of Game.run keeps calling the handler of the state:
\* as long as a step of the program is possible, one is taken
SpecLive == Spec /\ WF_vars(Next)

----------------------------------------------------------------------------
(* A late session.  Difficulty is computed from the absolute clock, so a   *)
(* session started after the menu has idled for LateStart ticks begins at  *)
(* difficulty LateStart \div TimeScale: its enemies are fast enough to     *)
(* pass the player and reach the bottom edge.  The state of InitLate is    *)
(* the state of Init after LateStart steps of Tick; the clock is followed  *)
(* for LateSpan more ticks.                                                *)

LateStart == 20
LateSpan == 5

InitLate ==
    /\ state = "MENU"
    /\ running = TRUE
    /\ ticks = LateStart
    /\ queue = <<>>
    /\ pc = "run"
    /\ player = NewPlayer(0)
    /\ bullets = <<>>
    /\ enemies = <<>>
    /\ obstacles = <<>>
    /\ pickups = <<>>
    /\ powerups = <<>>
    /\ score = 0
    /\ wave_interval = WaveIntervalStart
    /\ last_wave_time = 0
    /\ difficulty = 0
    /\ bi = 1
    /\ session_start = 0
    /\ frame_clock = 0

\* Tick, late
LateTick ==
    /\ pc = "run" /\ running /\ state # "GAME"
    /\ ticks >= LateStart
    /\ ticks < LateStart + LateSpan
    /\ ticks' = ticks + 1
    /\ UNCHANGED <<state, running, queue, pc, player, bullets, enemies,
                   obstacles, pickups, powerups, score, wave_interval,
                   last_wave_time, difficulty, bi, session_start,
                   frame_clock>>

\* GameTick, late
LateGameTick ==
    /\ pc = "run" /\ running /\ state = "GAME"
    /\ ticks >= LateStart
    /\ \E d \in FrameAdvances :
         /\ ticks + d <= LateStart + LateSpan
         /\ ticks' = ticks + d
    /\ running' = ~InQueue("QUIT")
    /\ queue' = <<>>
    /\ pc' = "player_update"
    /\ UNCHANGED <<state, player, bullets, enemies, obstacles, pickups,
                   powerups, score, wave_interval, last_wave_time, difficulty,
                   bi, session_start, frame_clock>>

NextLate ==
    \/ LateTick
    \/ PostEvents
    \/ menu_loop
    \/ game_over_loop
    \/ LateGameTick
    \/ PlayerUpdate
    \/ PlayerShoot
    \/ WaveStep
    \/ UpdateBullets
    \/ UpdateEnemies
    \/ UpdateFalling
    \/ PlayerBulletStep
    \/ PlayerBulletsDone
    \/ EnemyBulletsVsPlayer
    \/ ObstaclesVsPlayer
    \/ EnemiesVsPlayer
    \/ PickupsVsPlayer
    \/ PowerupsVsPlayer
    \/ TerminalCheck

SpecLate == InitLate /\ [][NextLate]_vars

----------------------------------------------------------------------------
(* The resolver of the player's bullets as a function of the collections   *)
(* it is handed.  handle_collisions takes whatever self.bullets,            *)
(* self.enemies and self.obstacles hold: InitResolver draws them from      *)
(* bounded sets, in one column, at the start of the first loop.            *)

MaxPerList == 2

\* the sequences over S of length <= n
SeqsUpTo(S, n) == UNION {[1..k -> S] : k \in 0..n}

\* rows of the bullets, and rows of the targets: a target of row 0 is under a
\* bullet of row 1 only, one of row 3 under a bullet of row 2 only, one of
\* row 2 under both
BulletRows == {1, 2}
TargetRows == {0, 2, 3}

ResolverBullets ==
    {Bullet(WIN_WIDTH \div 2, y, 0, PlayerBulletSpeedY, TRUE) : y \in BulletRows}
      \cup {Bullet(WIN_WIDTH \div 2, y, 0, EnemyBulletBaseSpeed, FALSE) : y \in BulletRows}

ResolverEnemies ==
    {[Enemy(WIN_WIDTH \div 2, y, EnemyBaseSpeed, 0, 0) EXCEPT !.health = h] :
        y \in TargetRows, h \in 1..EnemyInitialHealth}

ResolverObstacles ==
    {[Obstacle(ObstacleRadiusMin, WIN_WIDTH \div 2, ObstacleSpeedMin) EXCEPT !.y = y] :
        y \in TargetRows}

InitResolver ==
    /\ state = "GAME"
    /\ running = TRUE
    /\ ticks = 0
    /\ queue = <<>>
    /\ pc = "player_bullets"
    /\ player = NewPlayer(0)
    /\ bullets \in SeqsUpTo(ResolverBullets, MaxPerList)
    /\ enemies \in SeqsUpTo(ResolverEnemies, MaxPerList)
    /\ obstacles \in SeqsUpTo(ResolverObstacles, MaxPerList)
    /\ pickups = <<>>
    /\ powerups = <<>>
    /\ score = 0
    /\ wave_interval = WaveIntervalStart
    /\ last_wave_time = 0
    /\ difficulty = 0
    /\ bi = 1
    /\ session_start = 0
    /\ frame_clock = 0

NextResolver ==
    \/ PlayerBulletStep
    \/ PlayerBulletsDone

SpecResolver == InitResolver /\ [][NextResolver]_vars

----------------------------------------------------------------------------
(* Properties.                                                             *)

ActivePowerups == player.active_powerups

\* the sum of the health of the elements of s
RECURSIVE TotalHealth(_)
TotalHealth(s) == IF s = <<>> THEN 0 ELSE Head(s).health + TotalHealth(Tail(s))

\* the enemies / obstacles the bullet b overlaps, by index
EnemiesUnder(b) ==
    {i \in 1..Len(enemies) :
       (enemies[i].x - b.x) * (enemies[i].x - b.x)
         + (enemies[i].y - b.y) * (enemies[i].y - b.y)
       < (BulletRadius + EnemyRadius) * (BulletRadius + EnemyRadius)}
ObstaclesUnder(b) ==
    {i \in 1..Len(obstacles) :
       (obstacles[i].x - b.x) * (obstacles[i].x - b.x)
         + (obstacles[i].y - b.y) * (obstacles[i].y - b.y)
       < (BulletRadius + obstacles[i].radius) * (BulletRadius + obstacles[i].radius)}

\* the first loop of handle_collisions is at a bullet the player fired
AtPlayerBullet ==
    pc = "player_bullets" /\ bi <= Len(bullets) /\ bullets[bi].from_player

\* e (an entity of the given radius) and the player overlap
OverPlayer(e, radius) ==
    (e.x - player.x) * (e.x - player.x) + (e.y - player.y) * (e.y - player.y)
      < (radius + PlayerRadius) * (radius + PlayerRadius)

\* C1: after any health-modifying event the player's health lies in
\* [0, max_health], max_health the configured initial health.
C1_HealthInRange == player.health >= 0 /\ player.health <= InitialHealth

\* C2: while "shield" is in the active-powerup map, none of the passes enemy
\* bullets / obstacles / enemies vs. player reduces the player's health, and
\* each of them still removes every bullet, obstacle or enemy that overlaps
\* the player.
C2_ShieldBlocksDamage ==
    [][("shield" \in DOMAIN ActivePowerups
          /\ pc \in {"enemy_bullets", "obstacles_player", "enemies_player"})
       => /\ player'.health >= player.health
          /\ pc = "enemy_bullets" =>
               /\ \A i \in 1..Len(bullets') :
                    bullets'[i].from_player \/ ~OverPlayer(bullets'[i], BulletRadius)
               /\ Len(bullets') = Len(bullets) - Cardinality(
                    {i \in 1..Len(bullets) :
                       ~bullets[i].from_player /\ OverPlayer(bullets[i], BulletRadius)})
          /\ pc = "obstacles_player" =>
               /\ \A i \in 1..Len(obstacles') :
                    ~OverPlayer(obstacles'[i], obstacles'[i].radius)
               /\ Len(obstacles') = Len(obstacles) - Cardinality(
                    {i \in 1..Len(obstacles) :
                       OverPlayer(obstacles[i], obstacles[i].radius)})
          /\ pc = "enemies_player" =>
               /\ \A i \in 1..Len(enemies') : ~OverPlayer(enemies'[i], EnemyRadius)
               /\ Len(enemies') = Len(enemies) - Cardinality(
                    {i \in 1..Len(enemies) : OverPlayer(enemies[i], EnemyRadius)})
      ]_vars

\* the shielded player is in a damaging pass and overlaps something it removes
C2_Witness ==
    /\ "shield" \in DOMAIN ActivePowerups
    /\ \/ pc = "obstacles_player"
          /\ \E i \in 1..Len(obstacles) : OverPlayer(obstacles[i], obstacles[i].radius)
       \/ pc = "enemies_player"
          /\ \E i \in 1..Len(enemies) : OverPlayer(enemies[i], EnemyRadius)

\* the powerups of kind k the player overlaps, by index
PickedOfKind(k) ==
    {i \in 1..Len(powerups) :
       powerups[i].ptype = k /\ OverPlayer(powerups[i], PowerupRadius)}

\* C3: a pickup of kind k and duration d at time t sets the expiry of k to
\* t + d, whether or not k was active (replaced, never added to), and leaves
\* the expiry of every other kind unchanged.
C3_ExpiryReplaced ==
    [][pc = "powerups_player" =>
         \A k \in PowerupKinds :
           IF PickedOfKind(k) = {}
             THEN /\ (k \in DOMAIN ActivePowerups') = (k \in DOMAIN ActivePowerups)
                  /\ k \in DOMAIN ActivePowerups =>
                       ActivePowerups'[k] = ActivePowerups[k]
             ELSE /\ k \in DOMAIN ActivePowerups'
                  /\ \E i \in PickedOfKind(k) :
                       /\ \A j \in PickedOfKind(k) : j <= i
                       /\ ActivePowerups'[k] = ticks + powerups[i].duration
      ]_vars

\* a kind that is still active is picked up again, at a time at which adding
\* the duration to the old expiry and replacing it give different results
C3_Witness ==
    /\ pc = "powerups_player"
    /\ \E k \in DOMAIN ActivePowerups :
         /\ PickedOfKind(k) # {}
         /\ ActivePowerups[k] # ticks

\* C4: within a session the wave interval never increases from one step to
\* the next, is never below the configured minimum, and after a wave trigger
\* is max(minimum, previous interval - decrement).
C4_WaveInterval ==
    [][/\ wave_interval' >= WaveIntervalMin
       /\ ~(state # "GAME" /\ state' = "GAME") => wave_interval' <= wave_interval
       /\ (pc = "wave" /\ ticks - last_wave_time >= wave_interval) =>
            /\ wave_interval - WaveIntervalDecrement >= WaveIntervalMin =>
                 wave_interval' = wave_interval - WaveIntervalDecrement
            /\ wave_interval - WaveIntervalDecrement < WaveIntervalMin =>
                 wave_interval' = WaveIntervalMin
      ]_vars

\* a wave triggers with the interval already at the minimum
C4_Witness ==
    /\ pc = "wave"
    /\ ticks - last_wave_time >= wave_interval
    /\ wave_interval = WaveIntervalMin
    /\ wave_interval < WaveIntervalStart

\* C5: a nuke picked up with E enemies and O obstacles in the collections
\* empties both and adds exactly 10 * (E + O) to the score.
C5_Nuke ==
    [][(pc = "powerups_player" /\ PickedOfKind("nuke") # {})
       => /\ enemies' = <<>>
          /\ obstacles' = <<>>
          /\ score' = score + 1000 * (Len(enemies) + Len(obstacles))
      ]_vars

\* a nuke is picked up with an enemy and an obstacle in the collections
C5_Witness ==
    /\ pc = "powerups_player"
    /\ PickedOfKind("nuke") # {}
    /\ Len(enemies) >= 1
    /\ Len(obstacles) >= 1

\* C6: a player bullet that strikes an enemy (the first one it overlaps)
\* takes exactly 1 from that enemy's health and is removed; at health <= 0
\* the enemy is removed in the same step and the score grows by exactly 10,
\* otherwise the enemy stays and the score is unchanged.
C6_BulletStrikesEnemy ==
    [][(AtPlayerBullet /\ EnemiesUnder(bullets[bi]) # {})
       => \E ei \in EnemiesUnder(bullets[bi]) :
            /\ \A j \in EnemiesUnder(bullets[bi]) : ei <= j
            /\ Len(bullets') = Len(bullets) - 1
            /\ \A j \in 1..Len(bullets') :
                 bullets'[j] = IF j < bi THEN bullets[j] ELSE bullets[j + 1]
            /\ IF enemies[ei].health - 1 <= 0
                 THEN /\ Len(enemies') = Len(enemies) - 1
                      /\ \A j \in 1..Len(enemies') :
                           enemies'[j] = IF j < ei THEN enemies[j] ELSE enemies[j + 1]
                      /\ score' = score + 1000
                 ELSE /\ Len(enemies') = Len(enemies)
                      /\ enemies'[ei].health = enemies[ei].health - 1
                      /\ score' = score
      ]_vars

\* a player bullet is about to strike an enemy at health 1
C6_Witness ==
    /\ AtPlayerBullet
    /\ \E ei \in EnemiesUnder(bullets[bi]) :
         /\ \A j \in EnemiesUnder(bullets[bi]) : ei <= j
         /\ enemies[ei].health = 1

\* C7: in one frame a player bullet damages at most one target: only the
\* first enemy it overlaps, an obstacle only when it overlaps no enemy, and
\* a bullet that struck is removed at once, so no later check meets it.
C7_OneTargetPerBullet ==
    [][AtPlayerBullet
       => LET b == bullets[bi]
              lost == (TotalHealth(enemies) + TotalHealth(obstacles))
                        - (TotalHealth(enemies') + TotalHealth(obstacles'))
          IN /\ lost \in {0, 1}
             /\ lost = 1 <=> (EnemiesUnder(b) # {} \/ ObstaclesUnder(b) # {})
             /\ lost = 1 => /\ Len(bullets') = Len(bullets) - 1
                            /\ bi' = bi
             /\ lost = 0 => bullets' = bullets /\ bi' = bi + 1
             /\ EnemiesUnder(b) # {} =>
                  /\ obstacles' = obstacles
                  /\ \A i \in EnemiesUnder(b) :
                       (\E j \in EnemiesUnder(b) : j < i) =>
                         \E k \in 1..Len(enemies') : enemies'[k] = enemies[i]
             /\ EnemiesUnder(b) = {} => enemies' = enemies
      ]_vars

\* a player bullet overlaps two enemies and an obstacle at once
C7_Witness ==
    /\ AtPlayerBullet
    /\ Cardinality(EnemiesUnder(bullets[bi])) >= 2
    /\ ObstaclesUnder(bullets[bi]) # {}

\* the phases of a GAME frame after `difficulty` was computed
AfterDifficulty ==
    pc \in {"update_bullets", "update_enemies", "update_falling", "player_bullets",
            "enemy_bullets", "obstacles_player", "enemies_player",
            "pickups_player", "powerups_player", "terminal"}

\* C8: in every GAME frame the difficulty is floor(elapsed / time_scale),
\* elapsed the time since the start of the current session.
C8_DifficultyOfSession ==
    AfterDifficulty => difficulty = (ticks - session_start) \div TimeScale

\* C9: the terminal check, after the collisions, leaves GAME_OVER if and only
\* if the player's health is <= 0, and GAME otherwise; no other step of a
\* frame enters GAME_OVER.
C9_TerminalCheck ==
    [][/\ pc = "terminal" =>
            /\ (state' = "GAME_OVER") <=> (player.health <= 0)
            /\ player.health > 0 => state' = "GAME"
            /\ player' = player
       /\ (state' = "GAME_OVER" /\ state # "GAME_OVER") => pc = "terminal"
      ]_vars

\* the terminal check meets a player at health exactly 0
C9_Witness == pc = "terminal" /\ player.health = 0

\* C10: the state is MENU, GAME or GAME_OVER, starts at MENU, and changes
\* only MENU -> GAME on the start key, GAME -> GAME_OVER at health <= 0 and
\* GAME_OVER -> GAME on the restart key.
C10_StateMachine ==
    /\ state = "MENU"
    /\ [](state \in {"MENU", "GAME", "GAME_OVER"})
    /\ [][state' # state =>
            \/ state = "MENU" /\ state' = "GAME"
                 /\ \E i \in 1..Len(queue) : queue[i] = "K_SPACE"
            \/ state = "GAME" /\ state' = "GAME_OVER" /\ player.health <= 0
            \/ state = "GAME_OVER" /\ state' = "GAME"
                 /\ \E i \in 1..Len(queue) : queue[i] = "K_r"
         ]_vars

\* the game is over and the restart key is in the queue
C10_Witness ==
    /\ state = "GAME_OVER" /\ pc = "run" /\ running
    /\ \E i \in 1..Len(queue) : queue[i] = "K_r"

\* a step that enters GAME from MENU or GAME_OVER
EntersGame == state # "GAME" /\ state' = "GAME"

\* C11: every transition into GAME (start from MENU, restart from GAME_OVER)
\* resets the whole session before the first GAME frame: a new player at
\* initial health with no active powerup, the five entity collections empty,
\* score 0, the wave interval at its start value and the wave reference time
\* at the current time; nothing of it changes until the frame's first phase.
C11_FullReset ==
    [][/\ EntersGame =>
            /\ player'.health = InitialHealth
            /\ DOMAIN player'.active_powerups = {}
            /\ player'.fire_delay = PlayerFireDelay
            /\ player'.max_speed = PlayerMaxSpeed
            /\ player'.x = WIN_WIDTH \div 2 /\ player'.y = WIN_HEIGHT \div 2
            /\ player'.last_shot_time = ticks'
            /\ bullets' = <<>> /\ enemies' = <<>> /\ obstacles' = <<>>
            /\ pickups' = <<>> /\ powerups' = <<>>
            /\ score' = 0
            /\ wave_interval' = WaveIntervalStart
            /\ last_wave_time' = ticks'
       /\ (state = "GAME" /\ pc = "run") =>
            UNCHANGED <<player, bullets, enemies, obstacles, pickups, powerups,
                        score, wave_interval, last_wave_time>>
      ]_vars

\* the game is over with a powerup still active, entities on the field, a
\* score and a shortened wave interval, and the restart key is pressed
C11_Witness ==
    /\ state = "GAME_OVER" /\ pc = "run" /\ running
    /\ \E i \in 1..Len(queue) : queue[i] = "K_r"
    /\ DOMAIN player.active_powerups # {}
    /\ Len(bullets) + Len(enemies) + Len(obstacles) > 0
    /\ score > 0
    /\ wave_interval # WaveIntervalStart

\* the start input of MENU / the restart input of GAME_OVER is in the queue
StartInput ==
    \/ state = "MENU" /\ \E i \in 1..Len(queue) : queue[i] = "K_SPACE"
    \/ state = "GAME_OVER" /\ \E i \in 1..Len(queue) : queue[i] = "K_r"

\* C12: a frame in MENU or GAME_OVER without start / restart input leaves the
\* player, the five collections, the score, the wave interval and the wave
\* reference time unchanged and stays in its state; whatever changes one of
\* them is a phase of a GAME frame or the reset of a start / restart.
C12_OnlyGameSimulates ==
    [][/\ (state # "GAME" /\ ~StartInput) =>
            /\ UNCHANGED <<player, bullets, enemies, obstacles, pickups,
                           powerups, score, wave_interval, last_wave_time>>
            /\ state' = state
       /\ <<player, bullets, enemies, obstacles, pickups, powerups, score,
            wave_interval, last_wave_time>>' #
          <<player, bullets, enemies, obstacles, pickups, powerups, score,
            wave_interval, last_wave_time>>
            => \/ state = "GAME" /\ pc # "run"
               \/ StartInput /\ state' = "GAME"
      ]_vars

\* a GAME_OVER frame receives the start key of the menu, with entities and a
\* score left over from the session
C12_Witness ==
    /\ state = "GAME_OVER" /\ pc = "run" /\ running
    /\ queue = <<"K_SPACE">>
    /\ Len(bullets) + Len(enemies) + Len(obstacles) > 0
    /\ score > 0

\* C13: picking up a nuke adds no entry for "nuke" to the player's
\* active-powerup map and changes the expiry of no kind in it (a kind picked
\* up in the same pass gets its expiry from its own pickup).
C13_NukeNotTimed ==
    [][(pc = "powerups_player" /\ PickedOfKind("nuke") # {})
       => /\ "nuke" \notin DOMAIN ActivePowerups'
          /\ \A k \in DOMAIN ActivePowerups :
               (k # "nuke" /\ PickedOfKind(k) = {}) =>
                 /\ k \in DOMAIN ActivePowerups'
                 /\ ActivePowerups'[k] = ActivePowerups[k]
      ]_vars

\* C14: within one GAME frame every timer comparison and every timestamp
\* uses the clock value of the frame's first read (frame_clock), also when
\* the clock moves on during the frame: the player's fire cooldown and shot
\* stamp, the wave trigger, the wave reference time and the difficulty, each
\* enemy's fire cooldown and shot stamp, and the expiry set at a pickup.
C14_OneClockPerFrame ==
    [][/\ pc = "shoot" =>
            /\ (Len(bullets') > Len(bullets))
                 <=> (frame_clock - player.last_shot_time >= player.fire_delay)
            /\ player'.last_shot_time \in {player.last_shot_time, frame_clock}
       /\ pc = "wave" =>
            /\ (Len(enemies') > Len(enemies))
                 <=> (frame_clock - last_wave_time >= wave_interval)
            /\ last_wave_time' \in {last_wave_time, frame_clock}
            /\ difficulty' = frame_clock \div TimeScale
            /\ \A i \in 1..Len(enemies') : enemies'[i].last_shot_time <= frame_clock
       /\ (pc = "update_enemies" /\ ticks' = ticks) =>
            /\ Len(enemies) = Len(enemies') =>
                 \A i \in 1..Len(enemies) :
                   /\ (enemies'[i].last_shot_time # enemies[i].last_shot_time)
                        => (frame_clock - enemies[i].last_shot_time >= EnemyFireDelay)
                   /\ enemies'[i].last_shot_time
                        \in {enemies[i].last_shot_time, frame_clock}
            /\ \A i \in 1..Len(enemies') : enemies'[i].last_shot_time <= frame_clock
       /\ (pc = "powerups_player" /\ ticks' = ticks) =>
            \A k \in PowerupKinds :
              PickedOfKind(k) # {} =>
                \E i \in PickedOfKind(k) :
                  ActivePowerups'[k] = frame_clock + powerups[i].duration
      ]_vars

\* the number of elements of s that satisfy Test
CountOf(s, Test(_)) == Cardinality({i \in 1..Len(s) : Test(s[i])})

\* the enemy bullet b overlaps the player
EnemyBulletOverPlayer(b) == ~b.from_player /\ OverPlayer(b, BulletRadius)

\* no enemy and no obstacle in its collection is at health <= 0
NoDeadEntity ==
    /\ \A i \in 1..Len(enemies) : enemies[i].health >= 1
    /\ \A i \in 1..Len(obstacles) : obstacles[i].health >= 1

\* C15: removal while iterating is safe.  In the player-bullet pass each
\* turn leaves the bullets already visited alone and the bullets not yet
\* visited are exactly the rest of the pass (none skipped, none met twice);
\* a turn removes at most one bullet and at most one target, awards 10
\* exactly once per target removed, and damages only a target still in its
\* collection (none is left at health <= 0).  Each player-contact pass
\* removes exactly the elements that overlap the player, one removal each,
\* and leaves none of them behind.
C15_SafeRemoval ==
    /\ []NoDeadEntity
    /\ [][/\ (pc = "player_bullets" /\ bi <= Len(bullets)) =>
               /\ \A j \in 1..(bi - 1) : bullets'[j] = bullets[j]
               /\ SubSeq(bullets', bi', Len(bullets'))
                    = SubSeq(bullets, bi + 1, Len(bullets))
               /\ Len(bullets) - Len(bullets') \in {0, 1}
               /\ Len(enemies) - Len(enemies') \in {0, 1}
               /\ Len(obstacles) - Len(obstacles') \in {0, 1}
               /\ (Len(enemies) - Len(enemies')) + (Len(obstacles) - Len(obstacles'))
                    <= Len(bullets) - Len(bullets')
               /\ score' - score =
                    1000 * ((Len(enemies) - Len(enemies'))
                              + (Len(obstacles) - Len(obstacles')))
          /\ pc = "enemy_bullets" =>
               /\ Len(bullets') = Len(bullets) - CountOf(bullets, EnemyBulletOverPlayer)
               /\ CountOf(bullets', EnemyBulletOverPlayer) = 0
               /\ player.health - player'.health
                    \in {0, EnemyBulletDamage * CountOf(bullets, EnemyBulletOverPlayer)}
          /\ pc = "obstacles_player" =>
               /\ Len(obstacles') = Len(obstacles)
                    - CountOf(obstacles, LAMBDA o : OverPlayer(o, o.radius))
               /\ CountOf(obstacles', LAMBDA o : OverPlayer(o, o.radius)) = 0
               /\ score' = score
          /\ pc = "enemies_player" =>
               /\ Len(enemies') = Len(enemies)
                    - CountOf(enemies, LAMBDA e : OverPlayer(e, EnemyRadius))
               /\ CountOf(enemies', LAMBDA e : OverPlayer(e, EnemyRadius)) = 0
               /\ score' = score
          /\ pc = "pickups_player" =>
               /\ Len(pickups') = Len(pickups)
                    - CountOf(pickups, LAMBDA p : OverPlayer(p, PickupRadius))
               /\ CountOf(pickups', LAMBDA p : OverPlayer(p, PickupRadius)) = 0
          /\ pc = "powerups_player" =>
               /\ Len(powerups') = Len(powerups)
                    - CountOf(powerups, LAMBDA pw : OverPlayer(pw, PowerupRadius))
               /\ CountOf(powerups', LAMBDA pw : OverPlayer(pw, PowerupRadius)) = 0
         ]_vars

\* the pass is at a player bullet that strikes and destroys a target while
\* another bullet of the pass is still to be visited
C15_Witness ==
    /\ AtPlayerBullet
    /\ bi < Len(bullets)
    /\ \/ \E i \in EnemiesUnder(bullets[bi]) :
            /\ \A j \in EnemiesUnder(bullets[bi]) : i <= j
            /\ enemies[i].health = 1
       \/ /\ EnemiesUnder(bullets[bi]) = {}
          /\ ObstaclesUnder(bullets[bi]) # {}

\* the stats the player's update derives from the base stats and the kinds
\* in its map
StatsOfKinds(p) ==
    /\ p.fire_delay = IF "rapid_fire" \in DOMAIN p.active_powerups
                        THEN (p.base_fire_delay * FireDelayFactorNum)
                               \div FireDelayFactorDen
                        ELSE p.base_fire_delay
    /\ p.max_speed = IF "speed_boost" \in DOMAIN p.active_powerups
                       THEN p.base_max_speed * SpeedMultiplier
                       ELSE p.base_max_speed

\* C16: after the player's update of a frame the fire delay is the base fire
\* delay, or floor(base * factor) with rapid-fire in the map, and the max
\* speed is the base max speed, or base * multiplier with speed-boost in the
\* map, whatever the stats were before (no compounding, no dependence on the
\* order of the pickups); the base values never change.
C16_DerivedStats ==
    /\ [](/\ player.base_fire_delay = PlayerFireDelay
          /\ player.base_max_speed = PlayerMaxSpeed)
    /\ [](pc \in {"shoot", "wave"} => StatsOfKinds(player))
    /\ [][pc = "player_update" => StatsOfKinds(player')]_vars

\* the update meets a player whose fire delay is already shortened by a
\* rapid-fire that stays active
C16_Witness ==
    /\ pc = "player_update"
    /\ "rapid_fire" \in DOMAIN ActivePowerups
    /\ ticks < ActivePowerups["rapid_fire"]
    /\ player.fire_delay < player.base_fire_delay

\* the rolls for which pick_rarity gives the bucket r
RollsOf(r) == {roll \in Rolls : pick_rarity(roll) = r}

\* C17: the rarity of a powerup is picked by cumulative-range containment of
\* its roll, drawn from [0, common + uncommon + rare): roll < common gives
\* common, common <= roll < common + uncommon gives uncommon, any other roll
\* rare; so each bucket takes the share weight / total of the rolls.
C17_RarityByRange ==
    /\ \A i \in 1..Len(powerups) :
         LET roll == powerups[i].roll
             rarity == powerups[i].rarity
         IN /\ roll >= 0
            /\ roll < CommonWeight + UncommonWeight + RareWeight
            /\ roll < CommonWeight => rarity = "common"
            /\ (CommonWeight <= roll /\ roll < CommonWeight + UncommonWeight)
                 => rarity = "uncommon"
            /\ roll >= CommonWeight + UncommonWeight => rarity = "rare"
    /\ LET total == CommonWeight + UncommonWeight + RareWeight
       IN /\ Cardinality(RollsOf("common")) * total = CommonWeight * Cardinality(Rolls)
          /\ Cardinality(RollsOf("uncommon")) * total = UncommonWeight * Cardinality(Rolls)
          /\ Cardinality(RollsOf("rare")) * total = RareWeight * Cardinality(Rolls)

\* powerups drawn at the two boundaries of the ranges are on the field
C17_Witness ==
    /\ \E i \in 1..Len(powerups) : powerups[i].roll = CommonWeight
    /\ \E i \in 1..Len(powerups) : powerups[i].roll = CommonWeight + UncommonWeight

\* the queue holds a quit input of the current state: the window's QUIT in
\* any state, the key Q in MENU and GAME_OVER
QuitInput ==
    \/ \E i \in 1..Len(queue) : queue[i] = "QUIT"
    \/ state # "GAME" /\ \E i \in 1..Len(queue) : queue[i] = "K_q"

\* C18: in MENU, GAME and GAME_OVER the frame that receives a quit input
\* clears `running`; `running` is never set again, and once the frame is
\* over (pc = "run") the main loop has stopped: no further step is taken.
C18_QuitTerminates ==
    [][/\ (pc = "run" /\ running /\ QuitInput /\ queue' = <<>>) => ~running'
       /\ ~running => ~running'
       /\ ~(pc = "run" /\ ~running)
      ]_vars

\* a GAME frame of a running session has received QUIT and has ended
C18_Witness ==
    /\ state = "GAME" /\ pc = "run" /\ ~running
    /\ Len(enemies) > 0
    /\ player.health > 0

\* C19: a GAME frame triggers a wave if and only if (current time - wave
\* reference time) >= wave interval; the trigger spawns and sets the
\* reference time to the current time, and nothing else but a reset sets it;
\* so the trigger condition is false for the rest of the frame, two
\* consecutive waves are at least the interval in force apart, and the first
\* wave of a session comes no earlier than the start interval after the reset.
C19_WaveTrigger ==
    /\ [](last_wave_time # session_start =>
            last_wave_time - session_start >= WaveIntervalStart)
    /\ []((Len(enemies) + Len(obstacles) + Len(pickups) + Len(powerups) > 0) =>
            ticks - session_start >= WaveIntervalStart)
    /\ [][/\ pc = "wave" =>
               IF ticks - last_wave_time >= wave_interval
                 THEN /\ Len(enemies') > Len(enemies)
                      /\ Len(obstacles') > Len(obstacles)
                      /\ last_wave_time' = ticks
                      /\ ticks' - last_wave_time' < wave_interval'
                 ELSE UNCHANGED <<enemies, obstacles, pickups, powerups,
                                  last_wave_time, wave_interval>>
          /\ (last_wave_time' # last_wave_time /\ ~EntersGame) =>
               /\ pc = "wave"
               /\ last_wave_time' - last_wave_time >= wave_interval
         ]_vars

\* the second wave of a session is due at exactly the interval in force
C19_Witness ==
    /\ pc = "wave"
    /\ last_wave_time # session_start
    /\ ticks - last_wave_time = wave_interval

\* the kinds whose effect lasts until an expiry time
TimedKinds == {"rapid_fire", "speed_boost", "spread_shot", "shield"}

\* GAME frames no longer run: the main loop has stopped, the session is
\* over, or the clock is at the end of what is followed
FramesStopped ==
    pc = "run" /\ (~running \/ state # "GAME" \/ ticks = MaxTicks)

\* the collision phases of a frame
CollisionPhases ==
    {"player_bullets", "enemy_bullets", "obstacles_player", "enemies_player",
     "pickups_player", "powerups_player"}

\* C20: a timed kind enters the player's map only through a pickup of that
\* kind; it leaves the map only at a player update whose time is >= its
\* expiry (or with the old player at a reset), so it is in the map at every
\* collision phase of a frame whose time is < its expiry; the first player
\* update whose time is >= the expiry purges it; and while GAME frames keep
\* running it is eventually absent (or the frames stop before the expiry).
C20_PowerupLifecycle ==
    /\ [][\A k \in TimedKinds :
            /\ (k \notin DOMAIN ActivePowerups /\ k \in DOMAIN ActivePowerups') =>
                 (pc = "powerups_player" /\ PickedOfKind(k) # {})
            /\ (k \in DOMAIN ActivePowerups /\ k \notin DOMAIN ActivePowerups') =>
                 \/ pc = "player_update" /\ ticks >= ActivePowerups[k]
                 \/ EntersGame
            /\ (pc = "player_update" /\ k \in DOMAIN ActivePowerups) =>
                 (k \in DOMAIN ActivePowerups') = (ticks < ActivePowerups[k])
            /\ (pc \in CollisionPhases /\ k \in DOMAIN ActivePowerups) =>
                 /\ ticks < ActivePowerups[k]
                 /\ k \in DOMAIN ActivePowerups'
         ]_vars
    /\ \A k \in TimedKinds :
         (state = "GAME" /\ k \in DOMAIN ActivePowerups)
           ~> (\/ k \notin DOMAIN ActivePowerups
               \/ FramesStopped /\ ticks < ActivePowerups[k])

\* a player update meets a kind at exactly its expiry time
C20_Witness ==
    /\ pc = "player_update"
    /\ \E k \in TimedKinds :
         k \in DOMAIN ActivePowerups /\ ActivePowerups[k] = ticks

----------------------------------------------------------------------------
\* a bullet inside the playfield, edges included
InField(b) == b.x >= 0 /\ b.x <= WIN_WIDTH /\ b.y >= 0 /\ b.y <= WIN_HEIGHT

\* the frame has run to its end: handle_collisions and the health check are
\* done and the next frame has not begun
EndOfFrame == pc = "run" /\ state \in {"GAME", "GAME_OVER"}

\* C21: at the end of every GAME frame every bullet of the collection,
\* player-fired or enemy-fired, lies inside the playfield, 0 <= x <= width and
\* 0 <= y <= height.
C21_BulletsInField ==
    EndOfFrame => \A i \in 1..Len(bullets) : InField(bullets[i])

----------------------------------------------------------------------------
\* the elements of s that are at most r(e) below the bottom edge after their move
KeptAfterMove(s, r(_)) ==
    {i \in 1..Len(s) : s[i].y + s[i].speed <= WIN_HEIGHT + r(s[i])}

EnemyRadiusOf(e) == EnemyRadius

ObstacleRadiusOf(o) == o.radius

\* C22: at the end of every GAME frame every enemy and every obstacle of its
\* collection has health >= 1 and y <= playfield height + its own radius;
\* the update loops remove exactly the elements that are strictly further
\* down, so an element at y = height + radius is kept.
C22_AliveAndInside ==
    [][/\ pc = "terminal" =>
            /\ \A i \in 1..Len(enemies') :
                  /\ enemies'[i].health >= 1
                  /\ enemies'[i].y <= WIN_HEIGHT + EnemyRadius
            /\ \A i \in 1..Len(obstacles') :
                  /\ obstacles'[i].health >= 1
                  /\ obstacles'[i].y <= WIN_HEIGHT + obstacles'[i].radius
       /\ pc = "update_enemies" =>
            Len(enemies') = Cardinality(KeptAfterMove(enemies, EnemyRadiusOf))
       /\ pc = "update_falling" =>
            Len(obstacles') = Cardinality(KeptAfterMove(obstacles, ObstacleRadiusOf))
      ]_vars

\* a frame has ended with an enemy exactly at height + radius in the collection
C22_Witness ==
    /\ EndOfFrame /\ state = "GAME"
    /\ \E i \in 1..Len(enemies) : enemies[i].y = WIN_HEIGHT + EnemyRadius

----------------------------------------------------------------------------
\* the player-owned bullets of s
PlayerOwned(s) == SelectSeq(s, LAMBDA b : b.from_player)

\* the step of Player.shoot adds a bullet
Fires == pc = "shoot" /\ Len(bullets') > Len(bullets)

\* C23: the player fires in a frame if and only if (current time - last shot
\* time) >= the current fire delay, which is the powerup-modified value of
\* that frame; a firing sets the last shot time to the current time, and only
\* a firing or a reset sets it, so two consecutive firings are at least the
\* fire delay in force at the later one apart and the first firing of a
\* session comes no earlier than one fire delay after the reset.
C23_FireGate ==
    [][/\ pc = "shoot" =>
            /\ StatsOfKinds(player)
            /\ IF ticks - player.last_shot_time >= player.fire_delay
                 THEN /\ Fires
                      /\ player'.last_shot_time = ticks
                 ELSE UNCHANGED <<bullets, player>>
       /\ EntersGame => player'.last_shot_time = session_start'
       /\ (player'.last_shot_time # player.last_shot_time /\ ~EntersGame) =>
            /\ Fires
            /\ player'.last_shot_time - player.last_shot_time >= player.fire_delay
       /\ (Len(PlayerOwned(bullets')) > Len(PlayerOwned(bullets))) =>
            /\ Fires
            /\ ticks - session_start >= player.fire_delay
      ]_vars

\* the player fires with rapid-fire active, exactly the shortened fire delay
\* after the shot before
C23_Witness ==
    /\ pc = "shoot"
    /\ "rapid_fire" \in DOMAIN player.active_powerups
    /\ player.last_shot_time # session_start
    /\ player.fire_delay < PlayerFireDelay
    /\ ticks - player.last_shot_time = player.fire_delay

----------------------------------------------------------------------------
\* the bullets the step appended
NewBullets == SubSeq(bullets', Len(bullets) + 1, Len(bullets'))

\* the offset from straight forward (up), in degrees in -90..180, of a bullet
\* flying along an axis: the angle a with dx = v sin a, dy = -v cos a
OffsetOf(b) ==
    CASE b.dx = 0 /\ b.dy < 0 -> 0
      [] b.dx > 0 /\ b.dy = 0 -> 90
      [] b.dx < 0 /\ b.dy = 0 -> -90
      [] b.dx = 0 /\ b.dy > 0 -> 180

RECURSIVE SumOfOffsets(_)
SumOfOffsets(s) == IF s = <<>> THEN 0 ELSE OffsetOf(Head(s)) + SumOfOffsets(Tail(s))

\* largest offset - smallest offset of the bullets of s
FanOf(s) ==
    LET offs == {OffsetOf(s[i]) : i \in 1..Len(s)}
    IN (CHOOSE a \in offs : \A c \in offs : a >= c)
         - (CHOOSE a \in offs : \A c \in offs : a <= c)

\* each firing adds 1 player-owned bullet without spread-shot and
\* SpreadBulletCount with it, their offsets summing to 0
CountAndSymmetry ==
    /\ Len(NewBullets) = IF "spread_shot" \in DOMAIN player.active_powerups
                           THEN SpreadBulletCount ELSE 1
    /\ \A i \in 1..Len(NewBullets) :
          /\ NewBullets[i].from_player
          /\ NewBullets[i].x = player.x /\ NewBullets[i].y = player.y
    /\ SumOfOffsets(NewBullets) = 0

\* C24: each player firing adds exactly 1 player-owned bullet when spread-shot
\* is not active and exactly N when it is, N the configured bullet count; the
\* N offsets are symmetric about straight forward (their sum is 0) and the
\* largest offset minus the smallest equals the configured angle.
C24_FanIsConfiguredAngle ==
    [][Fires =>
         /\ CountAndSymmetry
         /\ "spread_shot" \in DOMAIN player.active_powerups =>
              FanOf(NewBullets) = SpreadAngleDegrees
      ]_vars

\* C24, amended: the count and the symmetry as stated; the configured angle is
\* the angle between two adjacent bullets, so the largest offset minus the
\* smallest is (N - 1) times the configured angle.
C24_FanIsStepTimesCount ==
    [][Fires =>
         /\ CountAndSymmetry
         /\ "spread_shot" \in DOMAIN player.active_powerups =>
              /\ FanOf(NewBullets) = (SpreadBulletCount - 1) * SpreadAngleDegrees
              /\ \A i \in 1..(Len(NewBullets) - 1) :
                    OffsetOf(NewBullets[i + 1]) - OffsetOf(NewBullets[i])
                      = SpreadAngleDegrees
      ]_vars

\* the player is about to fire with spread-shot active
C24_Witness ==
    /\ pc = "shoot"
    /\ "spread_shot" \in DOMAIN player.active_powerups
    /\ ticks - player.last_shot_time >= player.fire_delay

----------------------------------------------------------------------------
\* C25: if a collision pass of a GAME frame brings the player's health to
\* <= 0, the frame ends in GAME_OVER: from the pass on, no later pass of the
\* frame (health pickup, powerup pickup) raises the health above 0 again, and
\* the health check at the end of the frame enters GAME_OVER.
C25_DeathIsFinal ==
    [][(pc \in CollisionPhases \cup {"terminal"} /\ player.health <= 0) =>
          IF pc = "terminal"
            THEN state' = "GAME_OVER"
            ELSE player'.health <= 0
      ]_vars

----------------------------------------------------------------------------
(* The order of the resolver as specified: pass 1, every player bullet     *)
(* against the enemies, run to completion; then pass 2, the player bullets  *)
(* pass 1 left, against the obstacles.  In either pass a bullet strikes the *)
(* first target it overlaps: the target loses 1 health and is removed, for *)
(* the kill score, at health <= 0; the bullet is consumed.                  *)

\* s without its i-th element
Without(s, i) == SubSeq(s, 1, i - 1) \o SubSeq(s, i + 1, Len(s))

\* the radius of a target: an obstacle carries its own, an enemy the
\* configured one
RadiusOf(t) == IF "radius" \in DOMAIN t THEN t.radius ELSE EnemyRadius

\* the targets of ts the bullet b overlaps, by index
Under(b, ts) ==
    {j \in 1..Len(ts) :
       (ts[j].x - b.x) * (ts[j].x - b.x) + (ts[j].y - b.y) * (ts[j].y - b.y)
         < (BulletRadius + RadiusOf(ts[j])) * (BulletRadius + RadiusOf(ts[j]))}

\* one pass over the bullets bs[i], bs[i+1], ... against the targets ts
RECURSIVE Pass(_, _, _, _)
Pass(i, bs, ts, sc) ==
    IF i > Len(bs)
      THEN [bullets |-> bs, targets |-> ts, score |-> sc]
      ELSE IF ~bs[i].from_player \/ Under(bs[i], ts) = {}
      THEN Pass(i + 1, bs, ts, sc)
      ELSE LET j == CHOOSE k \in Under(bs[i], ts) : \A l \in Under(bs[i], ts) : k <= l
               left == ts[j].health - 1
           IN Pass(i, Without(bs, i),
                   IF left <= 0 THEN Without(ts, j) ELSE [ts EXCEPT ![j].health = left],
                   IF left <= 0 THEN sc + KillScore ELSE sc)

\* pass 1 then pass 2 over the bullets bs[i], bs[i+1], ...
TwoPass(i, bs, es, os, sc) ==
    LET p1 == Pass(i, bs, es, sc)
        p2 == Pass(i, p1.bullets, os, p1.score)
    IN [bullets |-> p2.bullets, enemies |-> p1.targets,
        obstacles |-> p2.targets, score |-> p2.score]

\* C26: the resolver's per-bullet interleaving (for each player bullet: the
\* enemies, and if none was hit the obstacles) ends with the same bullets,
\* enemies, obstacles, healths and score as pass 1 for all player bullets
\* against the enemies followed by pass 2 for the remaining player bullets
\* against the obstacles.  Every turn of the loop leaves the outcome the two
\* passes would have from there unchanged, and when the loop ends the
\* collections are that outcome.
C26_InterleavingIsTwoPass ==
    [][pc = "player_bullets" =>
         TwoPass(bi, bullets, enemies, obstacles, score)
           = IF pc' = "player_bullets"
               THEN TwoPass(bi', bullets', enemies', obstacles', score')
               ELSE [bullets |-> bullets', enemies |-> enemies',
                     obstacles |-> obstacles', score |-> score']
      ]_vars

\* in the middle of the loop: a bullet before has destroyed a target, and the
\* bullet the loop is at is over an enemy and over an obstacle
C26_Witness ==
    /\ pc = "player_bullets"
    /\ score = KillScore
    /\ bi <= Len(bullets)
    /\ bullets[bi].from_player
    /\ Under(bullets[bi], enemies) # {}
    /\ Under(bullets[bi], obstacles) # {}

====
